---- MODULE Spec2Model ----
(***************************************************************************)
(* A model of the Go package github.com/hweidner/set: the map-backed Set   *)
(* (set.go, and its generic successor v2/set.go) and the channel-based     *)
(* Iterator.                                                               *)
(*                                                                         *)
(* A Go map is a reference: a Set value is a handle on a map, and two      *)
(* handles may name the same map.  The model therefore keeps a heap of     *)
(* maps, heap[r] being the key set of the map behind reference r (the      *)
(* values are the empty struct and carry nothing).  Every method is an     *)
(* operator from a heap to a heap (and a result), translated loop by loop. *)
(* The iteration order of a Go map is unspecified: loops whose result does *)
(* not depend on the order take the keys in the order PickKey gives, and   *)
(* the three places where the order shows (List, String, Iterator) are     *)
(* nondeterministic.                                                       *)
(***************************************************************************)
EXTENDS Integers, Sequences, FiniteSets, TLC

VARIABLES
    heap,       \* Seq of key sets: heap[r] is the map behind reference r
    ret,        \* the call the caller last made and what it returned
    variant,    \* which Iterator is running: "v1" (set.go), "v2" (generic)
    iter,       \* the reference of the set the Iterator ranges over, 0 if none
    remaining,  \* keys the producer's range loop has not visited yet
    cur,        \* the key k of the current loop iteration
    ppc,        \* the producer goroutine's position
    icClosed,   \* close(ic) has happened
    doneClosed, \* close(done) has happened
    cpc,        \* the consumer's position
    pulls,      \* number of receives the consumer has started
    late,       \* the consumer's current/last receive began after close(done)
    last,       \* what the consumer's last completed receive returned
    got         \* the values delivered to the consumer, in order

vars == <<heap, ret, variant, iter, remaining, cur, ppc, icClosed, doneClosed,
          cpc, pulls, late, last, got>>

iterVars == <<variant, iter, remaining, cur, ppc, icClosed, doneClosed,
              cpc, pulls, late, last, got>>

----
\* Bounds of the model.

\* The sets the methods are called on hold values of 1..MaxElem.
MaxElem == 2
\* At most MaxSets maps are allocated.
MaxSets == 3
\* The longest variadic argument list (elements or sets) a call is given.
MaxArgs == 2

\* The sets the Iterator is run over hold values of 1..MaxIterElem.
MaxIterElem == 3

Elems == 1..MaxElem

IterElems == 1..MaxIterElem

\* The consumer makes at most MaxPulls receives: enough to take every element
\* of the largest set and to read the closed channel after that.
MaxPulls == MaxIterElem + 2

\* The zero value of the element type: what a receive on a closed channel
\* yields (0 for int, nil for interface{}).
Zero == 0

ArgLists == UNION {[1..n -> Elems] : n \in 0..MaxArgs}

Refs(h) == DOMAIN h

RefLists(h) == UNION {[1..n -> Refs(h)] : n \in 0..MaxArgs}

\* The key a range loop over a map takes next; any order is allowed.
PickKey(keys) == CHOOSE k \in keys : TRUE

----
\* Constructor and the methods that modify the receiver.

\* for _, i := range e { s.set[i] = struct{}{} }
RECURSIVE AddLoop(_, _, _, _)
AddLoop(h, s, e, i) ==
    IF i > Len(e) THEN h
    ELSE AddLoop([h EXCEPT ![s] = @ \cup {e[i]}], s, e, i + 1)

New(h, e) ==
    LET h0 == Append(h, {})
        r  == Len(h0)
    IN  [h |-> AddLoop(h0, r, e, 1), r |-> r]

Add(h, s, e) == AddLoop(h, s, e, 1)

\* for _, i := range e { delete(s.set, i) }
RECURSIVE RemoveLoop(_, _, _, _)
RemoveLoop(h, s, e, i) ==
    IF i > Len(e) THEN h
    ELSE RemoveLoop([h EXCEPT ![s] = @ \ {e[i]}], s, e, i + 1)

\* only the first argument is deleted
RemoveFirstOnly(h, s, e) ==
    IF e = <<>> THEN h ELSE [h EXCEPT ![s] = @ \ {e[1]}]

Remove(h, s, e) == RemoveLoop(h, s, e, 1)

\* for k := range s.set { delete(s.set, k) }
RECURSIVE ClearLoop(_, _, _)
ClearLoop(h, s, keys) ==
    IF keys = {} THEN h
    ELSE LET k == PickKey(keys)
         IN  ClearLoop([h EXCEPT ![s] = @ \ {k}], s, keys \ {k})

Clear(h, s) == ClearLoop(h, s, h[s])

----
\* The methods that do not modify the receiver.

IsEmpty(h, s) == Cardinality(h[s]) = 0

LenOf(h, s) == Cardinality(h[s])

RECURSIVE ContainsLoop(_, _, _, _)
ContainsLoop(h, s, e, i) ==
    IF i > Len(e) THEN TRUE
    ELSE IF e[i] \notin h[s] THEN FALSE
    ELSE ContainsLoop(h, s, e, i + 1)

Contains(h, s, e) == ContainsLoop(h, s, e, 1)

\* for k := range s.set { if _, ok := t.set[k]; !ok { return false } }
RECURSIVE SubsetLoop(_, _, _)
SubsetLoop(h, t, keys) ==
    IF keys = {} THEN TRUE
    ELSE LET k == PickKey(keys)
         IN  IF k \notin h[t] THEN FALSE ELSE SubsetLoop(h, t, keys \ {k})

\* the comparison of the lengths left out
IsEqualNoLen(h, s, t) == SubsetLoop(h, t, h[s])

IsEqual(h, s, t) ==
    IF Cardinality(h[s]) # Cardinality(h[t]) THEN FALSE
    ELSE SubsetLoop(h, t, h[s])

IsSubsetOf(h, s, t) == SubsetLoop(h, t, h[s])

IsSupersetOf(h, s, t) == IsSubsetOf(h, t, s)

----
\* The methods that return a new set.  Each returns the heap it leaves and
\* the reference r of its result.

\* for k := range keys { r.set[k] = struct{}{} }
RECURSIVE InsertKeys(_, _, _)
InsertKeys(h, r, keys) ==
    IF keys = {} THEN h
    ELSE LET k == PickKey(keys)
         IN  InsertKeys([h EXCEPT ![r] = @ \cup {k}], r, keys \ {k})

CopyAlias(h, s) == [h |-> h, r |-> s]

Copy(h, s) ==
    LET h0 == Append(h, {})
        r  == Len(h0)
    IN  [h |-> InsertKeys(h0, r, h0[s]), r |-> r]

\* for _, i := range t { for k := range i.set { r.set[k] = struct{}{} } }
RECURSIVE UnionLoop(_, _, _, _)
UnionLoop(h, r, t, i) ==
    IF i > Len(t) THEN h
    ELSE UnionLoop(InsertKeys(h, r, h[t[i]]), r, t, i + 1)

UnionFirstOperand(h, s, t) ==
    LET h0 == Append(h, {})
        r  == Len(h0)
        h1 == InsertKeys(h0, r, h0[s])
    IN  [h |-> IF t = <<>> THEN h1 ELSE InsertKeys(h1, r, h1[t[1]]), r |-> r]

Union(h, s, t) ==
    LET h0 == Append(h, {})
        r  == Len(h0)
        h1 == InsertKeys(h0, r, h0[s])
    IN  [h |-> UnionLoop(h1, r, t, 1), r |-> r]

\* for _, i := range t { if _, ok := i.set[k]; !ok { continue next_s_elem } }
RECURSIVE InEvery(_, _, _, _)
InEvery(h, t, k, i) ==
    IF i > Len(t) THEN TRUE
    ELSE IF k \notin h[t[i]] THEN FALSE
    ELSE InEvery(h, t, k, i + 1)

RECURSIVE IntersectLoop(_, _, _, _)
IntersectLoop(h, r, t, keys) ==
    IF keys = {} THEN h
    ELSE LET k == PickKey(keys)
         IN  IF InEvery(h, t, k, 1)
             THEN IntersectLoop([h EXCEPT ![r] = @ \cup {k}], r, t, keys \ {k})
             ELSE IntersectLoop(h, r, t, keys \ {k})

IntersectNeedsOperand(h, s, t) ==
    LET h0 == Append(h, {})
        r  == Len(h0)
    IN  [h |-> IF t = <<>> THEN h0 ELSE IntersectLoop(h0, r, t, h0[s]), r |-> r]

Intersect(h, s, t) ==
    LET h0 == Append(h, {})
        r  == Len(h0)
    IN  [h |-> IntersectLoop(h0, r, t, h0[s]), r |-> r]

\* for k := range s.set { if _, ok := t.set[k]; !ok { r.set[k] = struct{}{} } }
RECURSIVE DiffLoop(_, _, _, _)
DiffLoop(h, r, t, keys) ==
    IF keys = {} THEN h
    ELSE LET k == PickKey(keys)
         IN  IF k \notin h[t]
             THEN DiffLoop([h EXCEPT ![r] = @ \cup {k}], r, t, keys \ {k})
             ELSE DiffLoop(h, r, t, keys \ {k})

DiffKeepsAll(h, s, t) ==
    LET h0 == Append(h, {})
        r  == Len(h0)
    IN  [h |-> InsertKeys(h0, r, h0[s]), r |-> r]

Diff(h, s, t) ==
    LET h0 == Append(h, {})
        r  == Len(h0)
    IN  [h |-> DiffLoop(h0, r, t, h0[s]), r |-> r]

\* for k := range t.set {
\*     if _, ok := s.set[k]; !ok { r.set[k] = struct{}{} } else { delete(r.set, k) } }
RECURSIVE SymDiffLoop(_, _, _, _)
SymDiffLoop(h, r, s, keys) ==
    IF keys = {} THEN h
    ELSE LET k == PickKey(keys)
         IN  IF k \notin h[s]
             THEN SymDiffLoop([h EXCEPT ![r] = @ \cup {k}], r, s, keys \ {k})
             ELSE SymDiffLoop([h EXCEPT ![r] = @ \ {k}], r, s, keys \ {k})

\* r := s in place of r := s.Copy()
SymDiffInPlace(h, s, t) == [h |-> SymDiffLoop(h, s, s, h[t]), r |-> s]

\* the else branch (delete) left out
SymDiffNoDelete(h, s, t) ==
    LET c == Copy(h, s)
    IN  [h |-> InsertKeys(c.h, c.r, c.h[t]), r |-> c.r]

SymDiff(h, s, t) ==
    LET c == Copy(h, s)
    IN  [h |-> SymDiffLoop(c.h, c.r, s, c.h[t]), r |-> c.r]

----
\* The methods that return other data types.

\* All orders a range over the keys can take.
RECURSIVE Orders(_)
Orders(keys) ==
    IF keys = {} THEN {<<>>}
    ELSE UNION {{<<k>> \o o : o \in Orders(keys \ {k})} : k \in keys}

\* r = append(r, k) for each key, in the order the range takes
List(h, s) == Orders(h[s])

\* "{ " then each key followed by a space, then "}"; a key is rendered by
\* fmt.Sprint, here the token <<"elem", k>>
String(h, s) ==
    {<<"{ ">> \o [i \in 1..Len(o) |-> <<"elem", o[i], " ">>] \o <<"}">> : o \in Orders(h[s])}

----
\* The caller: one action per method call.  A call runs the whole method; the
\* caller then looks at the result (Return) before it makes its next call.

NoRet == [op |-> "none", recv |-> 0, args |-> <<>>, ops |-> <<>>, val |-> 0]

Call(op, recv, args, ops, val) ==
    [op |-> op, recv |-> recv, args |-> args, ops |-> ops, val |-> val]

Idle == ret.op = "none" /\ iter = 0

CanAlloc == Len(heap) < MaxSets

CallNew ==
    /\ Idle /\ CanAlloc
    /\ \E e \in ArgLists :
         LET x == New(heap, e)
         IN  heap' = x.h /\ ret' = Call("New", 0, e, <<>>, x.r)
    /\ UNCHANGED iterVars

CallAdd ==
    /\ Idle
    /\ \E s \in Refs(heap), e \in ArgLists :
         heap' = Add(heap, s, e) /\ ret' = Call("Add", s, e, <<>>, 0)
    /\ UNCHANGED iterVars

CallRemove ==
    /\ Idle
    /\ \E s \in Refs(heap), e \in ArgLists :
         heap' = Remove(heap, s, e) /\ ret' = Call("Remove", s, e, <<>>, 0)
    /\ UNCHANGED iterVars

CallClear ==
    /\ Idle
    /\ \E s \in Refs(heap) :
         heap' = Clear(heap, s) /\ ret' = Call("Clear", s, <<>>, <<>>, 0)
    /\ UNCHANGED iterVars

CallIsEmpty ==
    /\ Idle
    /\ \E s \in Refs(heap) : ret' = Call("IsEmpty", s, <<>>, <<>>, IsEmpty(heap, s))
    /\ UNCHANGED <<heap, iterVars>>

CallLen ==
    /\ Idle
    /\ \E s \in Refs(heap) : ret' = Call("Len", s, <<>>, <<>>, LenOf(heap, s))
    /\ UNCHANGED <<heap, iterVars>>

CallContains ==
    /\ Idle
    /\ \E s \in Refs(heap), e \in ArgLists :
         ret' = Call("Contains", s, e, <<>>, Contains(heap, s, e))
    /\ UNCHANGED <<heap, iterVars>>

CallIsEqual ==
    /\ Idle
    /\ \E s \in Refs(heap), t \in Refs(heap) :
         ret' = Call("IsEqual", s, <<>>, <<t>>, IsEqual(heap, s, t))
    /\ UNCHANGED <<heap, iterVars>>

CallIsSubsetOf ==
    /\ Idle
    /\ \E s \in Refs(heap), t \in Refs(heap) :
         ret' = Call("IsSubsetOf", s, <<>>, <<t>>, IsSubsetOf(heap, s, t))
    /\ UNCHANGED <<heap, iterVars>>

CallIsSupersetOf ==
    /\ Idle
    /\ \E s \in Refs(heap), t \in Refs(heap) :
         ret' = Call("IsSupersetOf", s, <<>>, <<t>>, IsSupersetOf(heap, s, t))
    /\ UNCHANGED <<heap, iterVars>>

CallCopy ==
    /\ Idle /\ CanAlloc
    /\ \E s \in Refs(heap) :
         LET x == Copy(heap, s)
         IN  heap' = x.h /\ ret' = Call("Copy", s, <<>>, <<>>, x.r)
    /\ UNCHANGED iterVars

CallUnion ==
    /\ Idle /\ CanAlloc
    /\ \E s \in Refs(heap), t \in RefLists(heap) :
         LET x == Union(heap, s, t)
         IN  heap' = x.h /\ ret' = Call("Union", s, <<>>, t, x.r)
    /\ UNCHANGED iterVars

CallIntersect ==
    /\ Idle /\ CanAlloc
    /\ \E s \in Refs(heap), t \in RefLists(heap) :
         LET x == Intersect(heap, s, t)
         IN  heap' = x.h /\ ret' = Call("Intersect", s, <<>>, t, x.r)
    /\ UNCHANGED iterVars

CallDiff ==
    /\ Idle /\ CanAlloc
    /\ \E s \in Refs(heap), t \in Refs(heap) :
         LET x == Diff(heap, s, t)
         IN  heap' = x.h /\ ret' = Call("Diff", s, <<>>, <<t>>, x.r)
    /\ UNCHANGED iterVars

CallSymDiff ==
    /\ Idle /\ CanAlloc
    /\ \E s \in Refs(heap), t \in Refs(heap) :
         LET x == SymDiff(heap, s, t)
         IN  heap' = x.h /\ ret' = Call("SymDiff", s, <<>>, <<t>>, x.r)
    /\ UNCHANGED iterVars

CallList ==
    /\ Idle
    /\ \E s \in Refs(heap) : \E l \in List(heap, s) :
         ret' = Call("List", s, <<>>, <<>>, l)
    /\ UNCHANGED <<heap, iterVars>>

CallString ==
    /\ Idle
    /\ \E s \in Refs(heap) : \E str \in String(heap, s) :
         ret' = Call("String", s, <<>>, <<>>, str)
    /\ UNCHANGED <<heap, iterVars>>

\* The caller has read the result.
Return ==
    /\ ret.op # "none"
    /\ ret' = NoRet
    /\ UNCHANGED <<heap, iterVars>>

\* What a receive on the closed channel returns: h3, ok := <-ch.
EndOfSequence == [v |-> Zero, ok |-> FALSE]

Init ==
    /\ heap = <<>>
    /\ ret = NoRet
    /\ variant = "none"
    /\ iter = 0
    /\ remaining = {}
    /\ cur = Zero
    /\ ppc = "none"
    /\ icClosed = FALSE
    /\ doneClosed = FALSE
    /\ cpc = "idle"
    /\ pulls = 0
    /\ late = FALSE
    /\ last = EndOfSequence
    /\ got = <<>>

Next ==
    \/ CallNew
    \/ CallAdd
    \/ CallRemove
    \/ CallClear
    \/ CallIsEmpty
    \/ CallLen
    \/ CallContains
    \/ CallIsEqual
    \/ CallIsSubsetOf
    \/ CallIsSupersetOf
    \/ CallCopy
    \/ CallUnion
    \/ CallIntersect
    \/ CallDiff
    \/ CallSymDiff
    \/ CallList
    \/ CallString
    \/ Return

Spec == Init /\ [][Next]_vars

----
\* The Iterator.  s.Iterator() makes the unbuffered channel ic and the channel
\* done, starts the producer goroutine and returns both channels.
\*
\*     go func() {
\*         for k := range s {            "loop"
\*             select {                  "select", "parked" while no case is ready
\*             case ic <- k:
\*             case <-done:              "done"
\*                 close(ic); return     (set.go)    /    break    (generic)
\*             }
\*         }
\*         close(ic)                     "close"
\*     }()                               "exit"
\*
\* The caller must not modify the set while the producer ranges over it, so no
\* method call is made between Iterator() and the end of the run.

\* The communications the producer's select offers.
SendOnly == {"send"}

SelectCases == {"send", "done"}

CallIterator ==
    /\ Idle
    /\ \E s \in Refs(heap), v \in {"v1", "v2"} :
         /\ iter' = s
         /\ variant' = v
         /\ remaining' = heap[s]
    /\ ppc' = "loop"
    /\ UNCHANGED <<heap, ret, cur, icClosed, doneClosed, cpc, pulls, late, last, got>>

\* for k := range s: the next key, or the end of the loop.
RangeNext ==
    /\ ppc = "loop"
    /\ IF remaining = {}
       THEN ppc' = "close" /\ UNCHANGED <<cur, remaining>>
       ELSE \E k \in remaining :
              cur' = k /\ remaining' = remaining \ {k} /\ ppc' = "select"
    /\ UNCHANGED <<heap, ret, variant, iter, icClosed, doneClosed, cpc, pulls,
                   late, last, got>>

\* A select with a default case: with no case ready the producer goes on.
SelectOrSkip ==
    /\ ppc = "select"
    /\ \/ /\ cpc = "recv"
          /\ got' = Append(got, cur)
          /\ last' = [v |-> cur, ok |-> TRUE]
          /\ cpc' = "idle"
          /\ ppc' = "loop"
       \/ /\ doneClosed
          /\ ppc' = "done"
          /\ UNCHANGED <<got, last, cpc>>
       \/ /\ cpc # "recv"
          /\ ~doneClosed
          /\ ppc' = "loop"
          /\ UNCHANGED <<got, last, cpc>>
    /\ UNCHANGED <<heap, ret, variant, iter, remaining, cur, icClosed, doneClosed,
                   pulls, late>>

\* The producer reaches the select.  A case that can proceed is taken, any
\* one of them if both can; if none can, the goroutine parks on both channels.
Select ==
    /\ ppc = "select"
    /\ \/ /\ "send" \in SelectCases
          /\ cpc = "recv"
          /\ got' = Append(got, cur)
          /\ last' = [v |-> cur, ok |-> TRUE]
          /\ cpc' = "idle"
          /\ ppc' = "loop"
       \/ /\ "done" \in SelectCases
          /\ doneClosed
          /\ ppc' = "done"
          /\ UNCHANGED <<got, last, cpc>>
       \/ /\ ~("send" \in SelectCases /\ cpc = "recv")
          /\ ~("done" \in SelectCases /\ doneClosed)
          /\ ppc' = "parked"
          /\ UNCHANGED <<got, last, cpc>>
    /\ UNCHANGED <<heap, ret, variant, iter, remaining, cur, icClosed, doneClosed,
                   pulls, late>>

\* close(ic): a receiver parked on ic is woken with the zero value and ok = false.
CloseChannel ==
    /\ icClosed' = TRUE
    /\ IF cpc = "recv"
       THEN cpc' = "idle" /\ last' = EndOfSequence
       ELSE UNCHANGED <<cpc, last>>

\* close(ic) in the done branch with the return left out.
DoneBranchNoReturn ==
    /\ ppc = "done"
    /\ CloseChannel
    /\ ppc' = "loop"
    /\ UNCHANGED <<heap, ret, variant, iter, remaining, cur, doneClosed, pulls,
                   late, got>>

\* The body of "case <-done:": close(ic) and return in set.go; in the generic
\* Iterator a break, which leaves the select and goes on with the loop.
DoneBranch ==
    /\ ppc = "done"
    /\ IF variant = "v1"
       THEN CloseChannel /\ ppc' = "exit"
       ELSE ppc' = "loop" /\ UNCHANGED <<icClosed, cpc, last>>
    /\ UNCHANGED <<heap, ret, variant, iter, remaining, cur, doneClosed, pulls,
                   late, got>>

\* The loop has ended without the final close(ic).
ExitWithoutClose ==
    /\ ppc = "close"
    /\ ppc' = "exit"
    /\ UNCHANGED <<icClosed, cpc, last>>
    /\ UNCHANGED <<heap, ret, variant, iter, remaining, cur, doneClosed, pulls,
                   late, got>>

\* close(ic) after the loop.
CloseIc ==
    /\ ppc = "close"
    /\ CloseChannel
    /\ ppc' = "exit"
    /\ UNCHANGED <<heap, ret, variant, iter, remaining, cur, doneClosed, pulls,
                   late, got>>

\* The consumer's h, ok := <-ch.  A closed channel answers at once; a producer
\* parked in its select hands its key over; otherwise the consumer parks.
Receive ==
    /\ iter # 0
    /\ cpc = "idle"
    /\ pulls < MaxPulls
    /\ pulls' = pulls + 1
    /\ late' = doneClosed
    /\ IF icClosed
       THEN last' = EndOfSequence /\ UNCHANGED <<cpc, ppc, got>>
       ELSE IF ppc = "parked" /\ "send" \in SelectCases
       THEN /\ last' = [v |-> cur, ok |-> TRUE]
            /\ got' = Append(got, cur)
            /\ ppc' = "loop"
            /\ UNCHANGED cpc
       ELSE cpc' = "recv" /\ UNCHANGED <<last, ppc, got>>
    /\ UNCHANGED <<heap, ret, variant, iter, remaining, cur, icClosed, doneClosed>>

\* The consumer's close(done), made at most once.  A producer parked in its
\* select is woken on the done case.
CloseDone ==
    /\ iter # 0
    /\ ~doneClosed
    /\ doneClosed' = TRUE
    /\ IF ppc = "parked" /\ "done" \in SelectCases
       THEN ppc' = "done"
       ELSE UNCHANGED ppc
    /\ UNCHANGED <<heap, ret, variant, iter, remaining, cur, icClosed, cpc, pulls,
                   late, last, got>>

\* The consumer receives no more.
StopPulling ==
    /\ iter # 0
    /\ cpc = "idle"
    /\ cpc' = "stopped"
    /\ UNCHANGED <<heap, ret, variant, iter, remaining, cur, ppc, icClosed,
                   doneClosed, pulls, late, last, got>>

\* The state after s := New(e...), for every set s over IterElems.
IterInit ==
    /\ heap \in {<<s>> : s \in SUBSET IterElems}
    /\ ret = NoRet
    /\ variant = "none"
    /\ iter = 0
    /\ remaining = {}
    /\ cur = Zero
    /\ ppc = "none"
    /\ icClosed = FALSE
    /\ doneClosed = FALSE
    /\ cpc = "idle"
    /\ pulls = 0
    /\ late = FALSE
    /\ last = EndOfSequence
    /\ got = <<>>

Producer == RangeNext \/ Select \/ DoneBranch \/ CloseIc

IterNext ==
    \/ CallIterator
    \/ RangeNext
    \/ Select
    \/ DoneBranch
    \/ CloseIc
    \/ Receive
    \/ CloseDone
    \/ StopPulling

IterSpec == IterInit /\ [][IterNext]_vars

\* The Go scheduler runs every goroutine that can run.
ProducerSpec == IterSpec /\ WF_vars(Producer)

\* And the consumer receives again whenever it is not stopped.
DrainSpec == IterSpec /\ WF_vars(Producer) /\ WF_vars(Receive)

----
\* The claims about the Iterator.

Delivered == {got[i] : i \in 1..Len(got)}

\* C1: once the consumer has closed done, the producer goroutine eventually
\* closes the element channel and exits, whatever it was doing and whether or
\* not the consumer receives again; and every receive begun once the channel
\* is closed returns the zero value with ok = false at once, parking nobody.
\* For both Iterators.
C1_CancelEndsProducer ==
    /\ doneClosed ~> (icClosed /\ ppc = "exit")
    /\ [][(icClosed /\ pulls' = pulls + 1) =>
            (last' = EndOfSequence /\ cpc' = "idle")]_vars
    /\ [](icClosed => cpc # "recv")

\* C1, the case: the generic Iterator cancelled while parked on its first
\* offer, with elements left; it has closed the channel and exited, and a
\* later receive has read the end of the sequence.
C1_Witness ==
    /\ variant = "v2"
    /\ doneClosed /\ icClosed /\ ppc = "exit"
    /\ got = <<>>
    /\ Cardinality(heap[iter]) = MaxIterElem
    /\ pulls = 1 /\ cpc = "idle" /\ last = EndOfSequence

\* C2: a receive that starts at or after close(done) never returns an element
\* of the set: it reports the end of the sequence.
C2_LateReceiveEndOfSequence ==
    (late /\ cpc # "recv") => (last = EndOfSequence)

\* C3: once the producer has taken the done branch of its select, its next
\* step closes the element channel and exits; it visits no further key.
C3_DoneBranchEnds ==
    [][(ppc = "done" /\ ppc' # "done") =>
         (ppc' = "exit" /\ icClosed' /\ remaining' = remaining)]_vars

\* C4: without cancellation and with a consumer that keeps receiving, the
\* consumer is given only elements of the set, none twice; the producer closes
\* the channel, and by then every element has been delivered; every receive
\* after that returns the zero value with ok = false.
C4_FullEnumeration ==
    /\ [](~doneClosed =>
            /\ Delivered \subseteq (IF iter = 0 THEN {} ELSE heap[iter])
            /\ Cardinality(Delivered) = Len(got))
    /\ []((icClosed /\ ~doneClosed) => Delivered = heap[iter])
    /\ [][(icClosed /\ pulls' = pulls + 1) => last' = EndOfSequence]_vars
    /\ (iter # 0) ~> (doneClosed \/ cpc = "stopped" \/ (icClosed /\ ppc = "exit"))

\* C4, the case: the largest set, enumerated in full and never cancelled,
\* and one more receive made on the closed channel.
C4_Witness ==
    /\ iter # 0 /\ ~doneClosed /\ icClosed /\ ppc = "exit"
    /\ Len(got) = MaxIterElem /\ Delivered = heap[iter]
    /\ pulls = MaxIterElem + 1 /\ last = EndOfSequence /\ cpc = "idle"

----
\* The claims about the methods.  ret names the call just made: its receiver
\* ret.recv, its operand sets ret.ops and, for a method that returns a set,
\* the reference ret.val of the result.

PureOps == {"Union", "Intersect", "Diff", "SymDiff", "Copy", "IsEqual",
            "IsSubsetOf", "IsSupersetOf", "Contains", "Len", "IsEmpty",
            "List", "String"}

MutatingOps == {"Add", "Remove", "Clear"}

SetOps == {"Copy", "Union", "Intersect", "Diff", "SymDiff"}

\* The step is a call of one of the methods in ops.
IsCall(ops) == ret.op = "none" /\ ret'.op \in ops

\* Every map that exists before the step has the same keys after it.
SameMaps(except) ==
    \A r \in Refs(heap) \ except : r \in Refs(heap') /\ heap'[r] = heap[r]

\* C5: Union, Intersect, Diff, SymDiff, Copy, IsEqual, IsSubsetOf,
\* IsSupersetOf, Contains, Len, IsEmpty, List and String leave the receiver
\* and every operand (every set there is) with the members it had, also when
\* receiver and operand are the same set; Add, Remove and Clear change no
\* set but the receiver and create none.
C5_OnlyMutatorsModify ==
    [][/\ IsCall(PureOps) => SameMaps({})
       /\ IsCall(MutatingOps) =>
            (SameMaps({ret'.recv}) /\ Refs(heap') = Refs(heap))]_vars

\* C5, the case: A.SymDiff(A) of a non-empty A has returned the empty set,
\* the one call whose loop deletes every key it meets, and A is as it was.
C5_Witness ==
    /\ ret.op = "SymDiff"
    /\ ret.ops = <<ret.recv>>
    /\ heap[ret.recv] = Elems
    /\ heap[ret.val] = {}

\* The inputs of the call ret names: its receiver and its operand sets.
Inputs == {ret.recv} \cup {ret.ops[i] : i \in 1..Len(ret.ops)}

\* An Add, Remove or Clear on c, with any arguments, leaves a as it is.
Untouched(a, c) ==
    /\ \A e \in ArgLists :
         Add(heap, c, e)[a] = heap[a] /\ Remove(heap, c, e)[a] = heap[a]
    /\ Clear(heap, c)[a] = heap[a]

\* C6: the set Copy returns is equal to the receiver, and it and the sets
\* Union, Intersect, Diff and SymDiff return are independent of the inputs:
\* the result is a map that did not exist before the call; an Add, Remove or
\* Clear on the result changes no input and one on an input does not change
\* the result; and as every later Add, Remove or Clear changes the receiver's
\* map alone, so does any sequence of them.
C6_ResultsIndependent ==
    /\ [](ret.op = "Copy" =>
            (IsEqual(heap, ret.val, ret.recv) /\ IsEqual(heap, ret.recv, ret.val)))
    /\ [](ret.op \in SetOps =>
            \A a \in Inputs : Untouched(a, ret.val) /\ Untouched(ret.val, a))
    /\ [][IsCall(SetOps) =>
            (ret'.val \notin Refs(heap) /\ ret'.val \in Refs(heap') /\ SameMaps({}))]_vars
    /\ [][IsCall(MutatingOps) => SameMaps({ret'.recv})]_vars

\* C6, the case: a copy C has been made of a set A that has an element and
\* lacks another, so that C.Add(x) with x not in A and C.Remove(y) with y in
\* A both change C.
C6_Witness ==
    /\ ret.op = "Copy"
    /\ ret.val # ret.recv
    /\ heap[ret.recv] # {}
    /\ heap[ret.recv] # Elems
    /\ heap[ret.val] = heap[ret.recv]

\* C7: S.Intersect(T1..Tn) holds x exactly if x is in S and in every Ti; with
\* no operand the result is equal to S; the result is a subset of S and of
\* every Ti.
C7_IntersectExact ==
    (ret.op = "Intersect") =>
        LET s == ret.recv
            t == ret.ops
            r == ret.val
        IN  /\ heap[r] = {x \in heap[s] : \A i \in 1..Len(t) : x \in heap[t[i]]}
            /\ (t = <<>>) => (IsEqual(heap, r, s) /\ IsEqual(heap, s, r))
            /\ IsSubsetOf(heap, r, s)
            /\ \A i \in 1..Len(t) : IsSubsetOf(heap, r, t[i])

\* C7, the case: an intersection with two operands that keeps some element of
\* the receiver and drops another.
C7_Witness ==
    /\ ret.op = "Intersect"
    /\ Len(ret.ops) = MaxArgs
    /\ heap[ret.val] # {}
    /\ heap[ret.val] # heap[ret.recv]

\* C8: A.SymDiff(B) holds x exactly if x is in one of A and B and not in the
\* other; it is equal to A.Union(B).Diff(A.Intersect(B)); and with the
\* elements of A.Intersect(B) added it is equal to A.Union(B).
C8_SymDiffExactlyOne ==
    (ret.op = "SymDiff") =>
        LET a == ret.recv
            b == ret.ops[1]
            d == ret.val
            u == Union(heap, a, <<b>>)
            i == Intersect(u.h, a, <<b>>)
            e == Diff(i.h, u.r, i.r)
        IN  /\ heap[d] = {x \in heap[a] \cup heap[b] : (x \in heap[a]) # (x \in heap[b])}
            /\ IsEqual(e.h, d, e.r)
            /\ \A l \in List(i.h, i.r) :
                 IsEqual(Add(i.h, d, l), d, u.r) /\ IsEqual(Add(i.h, d, l), u.r, d)

\* C8, the case: two sets with a common element and one that only A has.
C8_Witness ==
    /\ ret.op = "SymDiff"
    /\ heap[ret.recv] \cap heap[ret.ops[1]] # {}
    /\ heap[ret.val] # {}
    /\ heap[ret.val] # heap[ret.recv]

\* C9: A.Diff(B) holds exactly the elements of A that are not in B; it has no
\* element in common with A.Intersect(B); and its union with A.Intersect(B)
\* is equal to A.
C9_DiffPartitions ==
    (ret.op = "Diff") =>
        LET a == ret.recv
            b == ret.ops[1]
            d == ret.val
            i == Intersect(heap, a, <<b>>)
            u == Union(i.h, d, <<i.r>>)
        IN  /\ heap[d] = {x \in heap[a] : x \notin heap[b]}
            /\ ~ \E x \in Elems : Contains(i.h, d, <<x>>) /\ Contains(i.h, i.r, <<x>>)
            /\ IsEqual(u.h, u.r, a)

\* C9, the case: B takes some but not all of A's elements.
C9_Witness ==
    /\ ret.op = "Diff"
    /\ heap[ret.val] # {}
    /\ heap[ret.recv] \cap heap[ret.ops[1]] # {}

\* C10: S.Union(T1..Tn) holds x exactly if x is in S or in some Ti, once;
\* every input is a subset of it; and for one operand A.Union(B) is equal to
\* B.Union(A) and A.Union(B).Len() + A.Intersect(B).Len() is
\* A.Len() + B.Len().
C10_UnionExact ==
    (ret.op = "Union") =>
        LET s == ret.recv
            t == ret.ops
            r == ret.val
        IN  /\ heap[r] = heap[s] \cup UNION {heap[t[i]] : i \in 1..Len(t)}
            /\ \A l \in List(heap, r) : \A m, n \in 1..Len(l) : (l[m] = l[n]) => (m = n)
            /\ IsSubsetOf(heap, s, r)
            /\ \A i \in 1..Len(t) : IsSubsetOf(heap, t[i], r)
            /\ (Len(t) = 1) =>
                 LET v == Union(heap, t[1], <<s>>)
                     i == Intersect(v.h, s, t)
                 IN  /\ IsEqual(v.h, r, v.r)
                     /\ LenOf(heap, r) + LenOf(i.h, i.r)
                          = LenOf(heap, s) + LenOf(heap, t[1])

\* C10, the case: a union with two operands whose last operand brings an
\* element that neither the receiver nor the first operand has.
C10_Witness ==
    /\ ret.op = "Union"
    /\ Len(ret.ops) = MaxArgs
    /\ heap[ret.val] # heap[ret.recv] \cup heap[ret.ops[1]]

\* C11: S.IsEqual(T) is true exactly if S and T have the same members; the
\* check the code makes (equal lengths, then every key of S found in T) gives
\* the answer of the subset check made both ways, and the answer of
\* T.IsEqual(S).
C11_IsEqualDecidesEquality ==
    (ret.op = "IsEqual") =>
        LET s == ret.recv
            t == ret.ops[1]
        IN  /\ ret.val = (heap[s] = heap[t])
            /\ ret.val = (IsSubsetOf(heap, s, t) /\ IsSubsetOf(heap, t, s))
            /\ ret.val = IsEqual(heap, t, s)

\* C11, the case: S is a proper subset of T, so that every key of S is found
\* in T and only the lengths tell the sets apart.
C11_Witness ==
    /\ ret.op = "IsEqual"
    /\ ret.val = FALSE
    /\ heap[ret.recv] # {}
    /\ heap[ret.recv] \subseteq heap[ret.ops[1]]
    /\ heap[ret.recv] # heap[ret.ops[1]]

\* The values of an argument list.
Values(e) == {e[i] : i \in 1..Len(e)}

\* C12: a set holds each value at most once, whatever calls were made on it.
\* New(e...) makes the set of the distinct values of e; Add(e...) adds exactly
\* the values of e it lacks and Remove(e...) takes away exactly those it has;
\* Clear leaves none; so after any sequence of these calls the set holds the
\* values given and not taken away since.  Len is the number of those values,
\* Contains(x...) is true exactly if every x is one of them, IsEmpty is true
\* exactly if Len is 0, List gives each value once, and a repeated Add or
\* Remove changes nothing.
C12_Uniqueness ==
    /\ [][IsCall({"New"}) =>
            /\ heap'[ret'.val] = Values(ret'.args)
            /\ LenOf(heap', ret'.val) = Cardinality(Values(ret'.args))]_vars
    /\ [][IsCall({"Add"}) =>
            /\ heap'[ret'.recv] = heap[ret'.recv] \cup Values(ret'.args)
            /\ LenOf(heap', ret'.recv) =
                 LenOf(heap, ret'.recv)
                   + Cardinality(Values(ret'.args) \ heap[ret'.recv])
            /\ Add(heap', ret'.recv, ret'.args) = heap']_vars
    /\ [][IsCall({"Remove"}) =>
            /\ heap'[ret'.recv] = heap[ret'.recv] \ Values(ret'.args)
            /\ LenOf(heap', ret'.recv) =
                 LenOf(heap, ret'.recv)
                   - Cardinality(Values(ret'.args) \cap heap[ret'.recv])
            /\ Remove(heap', ret'.recv, ret'.args) = heap']_vars
    /\ [][IsCall({"Clear"}) =>
            (heap'[ret'.recv] = {} /\ LenOf(heap', ret'.recv) = 0)]_vars
    /\ [](ret.op = "Len" => ret.val = Cardinality(heap[ret.recv]))
    /\ [](ret.op = "Contains" => (ret.val = (Values(ret.args) \subseteq heap[ret.recv])))
    /\ [](ret.op = "IsEmpty" => (ret.val = (LenOf(heap, ret.recv) = 0)))
    /\ [](ret.op = "List" =>
            /\ Len(ret.val) = LenOf(heap, ret.recv)
            /\ Values(ret.val) = heap[ret.recv])

\* C12, the case: New has been given the same value twice and has made a set
\* of one element.
C12_Witness ==
    /\ ret.op = "New"
    /\ Len(ret.args) = MaxArgs
    /\ Cardinality(Values(ret.args)) = 1
    /\ LenOf(heap, ret.val) = 1

\* The Iterator's set has a key the consumer has not been given.
Undelivered == iter # 0 /\ Len(got) < Cardinality(heap[iter])

\* C13: the producer ends only by exhaustion or by cancellation.  While done
\* is open and some element has not been delivered, the channel is not closed
\* and the producer has not exited; if the consumer has stopped receiving
\* then, the producer comes to wait in its select and stays there for as long
\* as done is open.  Conversely the producer exits once done is closed, and
\* it exits when the consumer goes on receiving.
C13_EndsOnlyByExhaustionOrCancel ==
    /\ []((Undelivered /\ ~doneClosed) => (~icClosed /\ ppc # "exit"))
    /\ (Undelivered /\ cpc = "stopped") ~> (doneClosed \/ ppc = "parked")
    /\ [][(ppc = "parked" /\ cpc = "stopped" /\ ~doneClosed') => ppc' = "parked"]_vars
    /\ doneClosed ~> (ppc = "exit")
    /\ (iter # 0) ~> (ppc = "exit" \/ cpc = "stopped")

\* C13, the case: the consumer took one element of the largest set and
\* stopped without closing done; the producer waits in its select.
C13_Witness ==
    /\ cpc = "stopped" /\ ~doneClosed
    /\ Cardinality(heap[iter]) = MaxIterElem
    /\ Len(got) = 1
    /\ ppc = "parked" /\ ~icClosed

\* C14: in every interleaving of receives and at most one close(done), the
\* producer closes the element channel once, as its last step (it has closed
\* it exactly if it has exited), and sends nothing after that; the values delivered are elements of the set, no two
\* the same; and no more values are delivered than receives were made.
C14_ChannelSafety ==
    /\ [](icClosed <=> ppc = "exit")
    /\ [][icClosed => (icClosed' /\ ppc' = "exit" /\ got' = got)]_vars
    /\ [](iter # 0 => Delivered \subseteq heap[iter])
    /\ [](Cardinality(Delivered) = Len(got))
    /\ [](Len(got) <= pulls)

\* C14, the case: done was closed after the producer had delivered every
\* element, closed the channel and exited.
C14_Witness ==
    /\ doneClosed /\ icClosed /\ ppc = "exit"
    /\ Len(got) = MaxIterElem
    /\ ~late
    /\ pulls = MaxIterElem

====
